---- MODULE Spec2Model ----
(***************************************************************************)
(* Room allocation engine of the hotel booking system (src/bookRoom.py)    *)
(* and the request layer that serves it (src/bookingRouter.py).            *)
(*                                                                         *)
(* The inventory is the dict Hotel.available_rooms, room id -> "is free".  *)
(* Every method of Hotel is an operator computing what the method returns  *)
(* and the inventory it leaves; every call of a method is one action.      *)
(***************************************************************************)
EXTENDS Integers, Sequences, FiniteSets, TLC

VARIABLES
    available_rooms,   \* Hotel.available_rooms: room id -> BOOLEAN (TRUE = free)
    last,              \* the call that has just returned (NoCall once its result is taken)
    calls,             \* number of calls made so far
    tasks,             \* the requests in flight in the request layer, by request id
    running,           \* the request whose handler holds the event loop (0: none)
    frees,             \* number of calls served that can free rooms (cancel, randomize, reset)
    readers,           \* the GET /rooms requests in flight, by request id
    active             \* room id -> number of bookings made and not yet cancelled that hold it

vars == <<available_rooms, last, calls, tasks, running, frees, readers, active>>

-----------------------------------------------------------------------------
(* Bounds of the model *)

\* Longest history of calls explored.
MaxCalls == 3

\* Requests in flight at once in the request layer.
MaxRequests == 2

\* GET /rooms requests in flight next to them.
MaxReaders == 1

\* Longest room list given to book_specific_rooms / cancel_booking.
MaxListLen == 2

\* Room ids given to book_specific_rooms / cancel_booking: two rooms at the
\* ends of floor 1, two on floor 2, the last room of floor 10, and an id
\* that is no room of the hotel.
RoomInputs == {101, 110, 205, 210, 1007, 999}

\* Rooms generate_random_occupancy may leave free in the model; every other
\* room comes out occupied (one bounded family of the 2^97 outcomes).
RandomFreePool == {101, 110, 205, 210, 310, 1007}

\* Values of num_rooms given to book_rooms: the legal 1..5 and both sides out of range.
NumRoomsInputs == (0 - 1)..6

-----------------------------------------------------------------------------
(* Topology: Hotel.__init__ *)

floors == 10

rooms_per_floor == [f \in 1..floors |-> IF f <= 9 THEN 10 ELSE 7]

SINGLE_FLOOR == "single-floor"

MULTI_FLOOR == "multi-floor"

\* float('inf'): larger than every travel time.
Inf == 0 - 1

\* Variant: the comparison is >, so that the sequence of largest time is kept.
KeepsLargest(time, min_time) == min_time = Inf \/ (time # Inf /\ time > min_time)

\* Variant: the comparison is <=, so that a later window of equal time wins.
TieKeepsLast(time, min_time) == min_time = Inf \/ (time # Inf /\ time <= min_time)

LessThan(time, min_time) == min_time = Inf \/ (time # Inf /\ time < min_time)

-----------------------------------------------------------------------------
(* Python dict and list primitives used by the engine *)

\* dict.get(key, default)
Get(d, key, default) == IF key \in DOMAIN d THEN d[key] ELSE default

\* d[key] = value
SetItem(d, key, value) ==
    IF key \in DOMAIN d
    THEN [d EXCEPT ![key] = value]
    ELSE [k \in (DOMAIN d) \cup {key} |-> IF k = key THEN value ELSE d[k]]

\* list[i : i + n] with Python's 0-based i
Slice(list, i, n) == SubSeq(list, i + 1, i + n)

\* list.sort() / sorted(list): the ascending arrangement of the list, equal
\* elements kept; position k holds the element that k - 1 elements precede.
Sorted(list) ==
    LET Precedes(m, j) == list[m] < list[j] \/ (list[m] = list[j] /\ m < j)
        Rank(j) == Cardinality({m \in DOMAIN list : Precedes(m, j)})
    IN  [k \in 1..Len(list) |-> list[CHOOSE j \in DOMAIN list : Rank(j) = k - 1]]

\* set of the elements of a list
Elements(list) == {list[i] : i \in DOMAIN list}

-----------------------------------------------------------------------------
(* Hotel *)

_initialize_rooms ==
    [room_number \in UNION {{floor * 100 + room : room \in 1..rooms_per_floor[floor]}
                             : floor \in 1..floors} |-> TRUE]

\* Variant: the horizontal time is taken without abs().
SignedHorizontalTime(room1, room2) ==
    LET floor1 == room1 \div 100
        room_num1 == room1 % 100
        floor2 == room2 \div 100
        room_num2 == room2 % 100
        Abs(x) == IF x < 0 THEN 0 - x ELSE x
    IN  Abs(floor1 - floor2) * 2 + (room_num1 - room_num2)

_travel_time(room1, room2) ==
    LET floor1 == room1 \div 100
        room_num1 == room1 % 100
        floor2 == room2 \div 100
        room_num2 == room2 % 100
        Abs(x) == IF x < 0 THEN 0 - x ELSE x
        vertical_time == Abs(floor1 - floor2) * 2
        horizontal_time == Abs(room_num1 - room_num2)
    IN  vertical_time + horizontal_time

_get_available_rooms_on_floor(avail, floor) ==
    SelectSeq([room \in 1..rooms_per_floor[floor] |-> floor * 100 + room],
              LAMBDA room_number : Get(avail, room_number, FALSE))

\* The loop over the consecutive sequences of one list (both searches):
\* best is the pair (best_rooms, min_time) carried through the loop.
RECURSIVE ScanWindows(_, _, _, _)
ScanWindows(list, num_rooms, i, best) ==
    IF i >= Len(list) - num_rooms + 1 THEN best
    ELSE LET rooms == Slice(list, i, num_rooms)
             time == _travel_time(rooms[1], rooms[Len(rooms)])
         IN  IF LessThan(time, best.time)
             THEN ScanWindows(list, num_rooms, i + 1, [rooms |-> rooms, time |-> time])
             ELSE ScanWindows(list, num_rooms, i + 1, best)

RECURSIVE ScanFloors(_, _, _, _)
ScanFloors(avail, num_rooms, floor, best) ==
    IF floor > floors THEN best
    ELSE LET floor_rooms == _get_available_rooms_on_floor(avail, floor)
         IN  IF Len(floor_rooms) >= num_rooms
             THEN ScanFloors(avail, num_rooms, floor + 1,
                             ScanWindows(floor_rooms, num_rooms, 0, best))
             ELSE ScanFloors(avail, num_rooms, floor + 1, best)

\* Variant: the floor loop stops after floor 1 (range(1, 2)).
FirstFloorOnlySingleFloor(avail, num_rooms) ==
    LET floor_rooms == _get_available_rooms_on_floor(avail, 1)
    IN  IF Len(floor_rooms) >= num_rooms
        THEN ScanWindows(floor_rooms, num_rooms, 0, [rooms |-> <<>>, time |-> Inf])
        ELSE [rooms |-> <<>>, time |-> Inf]

_find_best_rooms_single_floor(avail, num_rooms) ==
    ScanFloors(avail, num_rooms, 1, [rooms |-> <<>>, time |-> Inf])

RECURSIVE CollectAvailable(_, _)
CollectAvailable(avail, floor) ==
    IF floor > floors THEN <<>>
    ELSE _get_available_rooms_on_floor(avail, floor) \o CollectAvailable(avail, floor + 1)

\* Variant: the first sequence of the list is taken without looking further.
FirstWindowMultiFloor(avail, num_rooms) ==
    LET all_available == Sorted(CollectAvailable(avail, 1))
    IN  IF Len(all_available) < num_rooms
        THEN [rooms |-> <<>>, time |-> Inf]
        ELSE [rooms |-> Slice(all_available, 0, num_rooms),
              time |-> _travel_time(all_available[1], all_available[num_rooms])]

\* Variant: the count test is <= instead of <.
OffByOneMultiFloor(avail, num_rooms) ==
    LET all_available == CollectAvailable(avail, 1)
    IN  IF Len(all_available) <= num_rooms
        THEN [rooms |-> <<>>, time |-> Inf]
        ELSE ScanWindows(Sorted(all_available), num_rooms, 0,
                         [rooms |-> <<>>, time |-> Inf])

_find_best_rooms_multi_floor(avail, num_rooms) ==
    LET all_available == CollectAvailable(avail, 1)
    IN  IF Len(all_available) < num_rooms
        THEN [rooms |-> <<>>, time |-> Inf]
        ELSE ScanWindows(Sorted(all_available), num_rooms, 0,
                         [rooms |-> <<>>, time |-> Inf])

\* Variant: the loop misses the last room of the list.
MarkAllButLast(avail, rooms, value) ==
    [room \in DOMAIN avail |->
        IF \E i \in 1..(Len(rooms) - 1) : rooms[i] = room THEN value ELSE avail[room]]

\* for room in rooms: self.available_rooms[room] = value
RECURSIVE MarkRooms(_, _, _)
MarkRooms(avail, rooms, value) ==
    IF rooms = <<>> THEN avail
    ELSE MarkRooms(SetItem(avail, Head(rooms), value), Tail(rooms), value)

\* The dicts the methods return, in one shape: error is "" when there is none,
\* room is the room an error names (0 when it names none).
ErrorResult(message, room) ==
    [error |-> message, room |-> room, booked_rooms |-> <<>>, travel_time |-> 0,
     booking_type |-> "", success |-> FALSE]

BookingResult(rooms, time, type) ==
    [error |-> "", room |-> 0, booked_rooms |-> rooms, travel_time |-> time,
     booking_type |-> type, success |-> FALSE]

SuccessResult ==
    [error |-> "", room |-> 0, booked_rooms |-> <<>>, travel_time |-> 0,
     booking_type |-> "", success |-> TRUE]

\* Each method below gives [result, available_rooms]: what it returns and the
\* inventory it leaves.
Outcome(result, avail) == [result |-> result, available_rooms |-> avail]

\* Variant: the single-floor search is left out; every booking comes from the
\* search over all floors.
MultiFloorSearchOnly(avail, num_rooms) ==
    IF num_rooms > 5
    THEN ErrorResult("Maximum 5 rooms per booking allowed.", 0)
    ELSE IF num_rooms <= 0
    THEN ErrorResult("Invalid number of rooms requested.", 0)
    ELSE LET multi == _find_best_rooms_multi_floor(avail, num_rooms)
         IN  IF multi.rooms = <<>>
             THEN ErrorResult("Not enough rooms available for booking.", 0)
             ELSE BookingResult(multi.rooms, multi.time, MULTI_FLOOR)

\* Variant: both searches are run and the cheaper result wins.
CheapestOfBothSearches(avail, num_rooms) ==
    IF num_rooms > 5
    THEN ErrorResult("Maximum 5 rooms per booking allowed.", 0)
    ELSE IF num_rooms <= 0
    THEN ErrorResult("Invalid number of rooms requested.", 0)
    ELSE LET single == _find_best_rooms_single_floor(avail, num_rooms)
             multi == _find_best_rooms_multi_floor(avail, num_rooms)
         IN  IF multi.rooms = <<>>
             THEN ErrorResult("Not enough rooms available for booking.", 0)
             ELSE IF single.rooms = <<>> \/ LessThan(multi.time, single.time)
             THEN BookingResult(multi.rooms, multi.time, MULTI_FLOOR)
             ELSE BookingResult(single.rooms, single.time, SINGLE_FLOOR)

\* Variant: the ceiling of 5 rooms is not checked.
NoCeilingSearch(avail, num_rooms) ==
    IF num_rooms <= 0
    THEN ErrorResult("Invalid number of rooms requested.", 0)
    ELSE LET single == _find_best_rooms_single_floor(avail, num_rooms)
         IN  IF single.rooms = <<>>
             THEN LET multi == _find_best_rooms_multi_floor(avail, num_rooms)
                  IN  IF multi.rooms = <<>>
                      THEN ErrorResult("Not enough rooms available for booking.", 0)
                      ELSE BookingResult(multi.rooms, multi.time, MULTI_FLOOR)
             ELSE BookingResult(single.rooms, single.time, SINGLE_FLOOR)

\* book_rooms up to its decision (lines 100-114): the error it returns, or
\* the rooms it has selected with their travel time and type.
book_rooms_search(avail, num_rooms) ==
    IF num_rooms > 5
    THEN ErrorResult("Maximum 5 rooms per booking allowed.", 0)
    ELSE IF num_rooms <= 0
    THEN ErrorResult("Invalid number of rooms requested.", 0)
    ELSE LET single == _find_best_rooms_single_floor(avail, num_rooms)
         IN  IF single.rooms = <<>>
             THEN LET multi == _find_best_rooms_multi_floor(avail, num_rooms)
                  IN  IF multi.rooms = <<>>
                      THEN ErrorResult("Not enough rooms available for booking.", 0)
                      ELSE BookingResult(multi.rooms, multi.time, MULTI_FLOOR)
             ELSE BookingResult(single.rooms, single.time, SINGLE_FLOOR)

\* "Mark rooms as booked" and return (lines 116-124, 126-134); an error has
\* returned before any room is marked.
commit_booking(avail, found) ==
    IF found.error # ""
    THEN Outcome(found, avail)
    ELSE Outcome(found, MarkRooms(avail, found.booked_rooms, FALSE))

book_rooms(avail, num_rooms) ==
    commit_booking(avail, book_rooms_search(avail, num_rooms))

\* Variant: the check tests only that the room is not occupied
\* (available_rooms.get(room, True)), so a room that is no key passes.
FirstOccupied(avail, rooms) ==
    IF \E i \in DOMAIN rooms : ~Get(avail, rooms[i], TRUE)
    THEN rooms[CHOOSE i \in DOMAIN rooms :
                 /\ ~Get(avail, rooms[i], TRUE)
                 /\ \A j \in 1..(i - 1) : Get(avail, rooms[j], TRUE)]
    ELSE 0

\* Variant: the check tests only that the room is a key, not that it is free.
FirstUnknown(avail, rooms) ==
    IF \E i \in DOMAIN rooms : rooms[i] \notin DOMAIN avail
    THEN rooms[CHOOSE i \in DOMAIN rooms :
                 /\ rooms[i] \notin DOMAIN avail
                 /\ \A j \in 1..(i - 1) : rooms[j] \in DOMAIN avail]
    ELSE 0

\* The availability check of book_specific_rooms: the first room of the list
\* that is no key of the inventory or is occupied, 0 when there is none.
RECURSIVE FirstUnavailable(_, _)
FirstUnavailable(avail, rooms) ==
    IF rooms = <<>> THEN 0
    ELSE IF Head(rooms) \notin DOMAIN avail \/ ~avail[Head(rooms)] THEN Head(rooms)
    ELSE FirstUnavailable(avail, Tail(rooms))

\* Variant: the result holds the sorted list instead of the caller's list.
CheckReturningSorted(avail, rooms) ==
    LET bad == FirstUnavailable(avail, rooms)
    IN  IF bad # 0
        THEN ErrorResult("Room is not available.", bad)
        ELSE LET sorted_rooms == Sorted(rooms)
                 travel_time == IF Len(rooms) > 1
                                THEN _travel_time(sorted_rooms[1],
                                                  sorted_rooms[Len(sorted_rooms)])
                                ELSE 0
                 room_floors == {room \div 100 : room \in Elements(rooms)}
                 booking_type == IF Cardinality(room_floors) = 1
                                 THEN SINGLE_FLOOR ELSE MULTI_FLOOR
             IN  BookingResult(sorted_rooms, travel_time, booking_type)

\* book_specific_rooms up to its decision: the availability check (lines
\* 139-141), and what the result will hold (lines 144-147, 154-155, which read
\* the request only).
book_specific_rooms_check(avail, rooms) ==
    LET bad == FirstUnavailable(avail, rooms)
    IN  IF bad # 0
        THEN ErrorResult("Room is not available.", bad)
        ELSE LET sorted_rooms == Sorted(rooms)
                 travel_time == IF Len(rooms) > 1
                                THEN _travel_time(sorted_rooms[1],
                                                  sorted_rooms[Len(sorted_rooms)])
                                ELSE 0
                 room_floors == {room \div 100 : room \in Elements(rooms)}
                 booking_type == IF Cardinality(room_floors) = 1
                                 THEN SINGLE_FLOOR ELSE MULTI_FLOOR
             IN  BookingResult(rooms, travel_time, booking_type)

book_specific_rooms(avail, rooms) ==
    commit_booking(avail, book_specific_rooms_check(avail, rooms))

\* Variant: a room that is already free is refused.
RECURSIVE CancelRejectsFree(_, _)
CancelRejectsFree(avail, rooms) ==
    IF rooms = <<>> THEN Outcome(SuccessResult, avail)
    ELSE IF Head(rooms) \notin DOMAIN avail
    THEN Outcome(ErrorResult("Room is not a valid room.", Head(rooms)), avail)
    ELSE IF avail[Head(rooms)]
    THEN Outcome(ErrorResult("Room is not booked.", Head(rooms)), avail)
    ELSE CancelRejectsFree([avail EXCEPT ![Head(rooms)] = TRUE], Tail(rooms))

\* Variant: the success return sits inside the loop, after the first room.
CancelFirstRoomOnly(avail, rooms) ==
    IF rooms = <<>> THEN Outcome(SuccessResult, avail)
    ELSE IF Head(rooms) \in DOMAIN avail
    THEN Outcome(SuccessResult, [avail EXCEPT ![Head(rooms)] = TRUE])
    ELSE Outcome(ErrorResult("Room is not a valid room.", Head(rooms)), avail)

\* The loop of cancel_booking: each room that is a key is set free as it is
\* met; the first room that is no key ends the call with an error.
RECURSIVE cancel_booking(_, _)
cancel_booking(avail, rooms) ==
    IF rooms = <<>> THEN Outcome(SuccessResult, avail)
    ELSE IF Head(rooms) \in DOMAIN avail
    THEN cancel_booking([avail EXCEPT ![Head(rooms)] = TRUE], Tail(rooms))
    ELSE Outcome(ErrorResult("Room is not a valid room.", Head(rooms)), avail)

get_available_rooms(avail) == avail

\* generate_random_occupancy: every key gets random.choice([True, False]).
\* The set of the inventories it may leave; those enumerated leave free only
\* rooms of RandomFreePool.
generate_random_occupancy(avail) ==
    {[room \in DOMAIN avail |-> room \in free] : free \in SUBSET RandomFreePool}

\* Variant: the rebuilt map stops one floor short (range(1, floors)).
ResetWithoutTopFloor ==
    Outcome(SuccessResult,
            [room_number \in UNION {{floor * 100 + room : room \in 1..rooms_per_floor[floor]}
                                     : floor \in 1..(floors - 1)} |-> TRUE])

reset == Outcome(SuccessResult, _initialize_rooms)

-----------------------------------------------------------------------------
(* Calls on the hotel *)


RECURSIVE SeqsUpTo(_, _)
SeqsUpTo(S, n) ==
    IF n = 0 THEN {<<>>}
    ELSE LET shorter == SeqsUpTo(S, n - 1)
         IN  shorter \cup {Append(s, x) : s \in {t \in shorter : Len(t) = n - 1}, x \in S}

\* Room lists given to book_specific_rooms / cancel_booking.
RoomListInputs == SeqsUpTo(RoomInputs, MaxListLen)

NoInventory == <<>>

\* The record of a call: the method, its argument (num_rooms or rooms), the
\* inventory before it, what it returned, and, for a cancel_booking of the
\* rooms the call before it had booked with book_rooms, the inventory before
\* that booking (NoInventory otherwise).
Call(op, num_rooms, rooms, before, result, base) ==
    [op |-> op, num_rooms |-> num_rooms, rooms |-> rooms, before |-> before,
     result |-> result, base |-> base]

NoCall == Call("none", 0, <<>>, NoInventory, SuccessResult, NoInventory)

\* A request in flight: pc is "none" (no such request yet), "pending"
\* (received, handler not started), "selected" (a booking handler has
\* selected its rooms and not yet marked them) or "done".  found is what the
\* handler selected or returned; snapshot is the inventory its search read,
\* before_commit the inventory it marked the rooms in; with is the set of
\* requests that were pending while it searched; at_search and at_commit are
\* the values of frees at those two moments.
Task(pc, op, num_rooms, rooms) ==
    [pc |-> pc, op |-> op, num_rooms |-> num_rooms, rooms |-> rooms,
     found |-> SuccessResult, snapshot |-> NoInventory, before_commit |-> NoInventory,
     with |-> {}, at_search |-> 0, at_commit |-> 0,
     available |-> NoInventory, floor |-> 0, served_before |-> 0]

NoTask == Task("none", "none", 0, <<>>)

TaskIds == 1..MaxRequests

\* A GET /rooms request: where its handler is, the map it was handed, the
\* requests that were in flight when it was served, and how many requests had
\* been served before it.
Reader(pc, response, with, served_before) ==
    [pc |-> pc, response |-> response, with |-> with, served_before |-> served_before]

NoReader == Reader("none", NoInventory, {}, 0)

ReaderIds == 1..MaxReaders

\* No booking holds any room.
NoBookings == [room \in DOMAIN _initialize_rooms |-> 0]

\* The rooms of a successful booking result are held by one booking more.
Hold(holders, result) ==
    IF result.error # "" THEN holders
    ELSE [room \in DOMAIN holders |->
             IF room \in Elements(result.booked_rooms) THEN holders[room] + 1
             ELSE holders[room]]

\* The rooms of a successful cancel_booking are held by no booking any more.
Release(holders, rooms, result) ==
    IF result.error # "" THEN holders
    ELSE [room \in DOMAIN holders |->
             IF room \in Elements(rooms) THEN 0 ELSE holders[room]]

Init ==
    /\ available_rooms = _initialize_rooms
    /\ last = NoCall
    /\ calls = 0
    /\ tasks = [t \in TaskIds |-> NoTask]
    /\ running = 0
    /\ frees = 0
    /\ readers = [g \in ReaderIds |-> NoReader]
    /\ active = NoBookings

-----------------------------------------------------------------------------
(* Calls on the hotel, one after the other *)

Idle == last = NoCall /\ calls < MaxCalls

BookAuto ==
    /\ Idle
    /\ \E num_rooms \in NumRoomsInputs :
          LET out == book_rooms(available_rooms, num_rooms)
          IN  /\ available_rooms' = out.available_rooms
              /\ last' = Call("book_rooms", num_rooms, <<>>, available_rooms,
                              out.result, NoInventory)
    /\ calls' = calls + 1
    /\ UNCHANGED <<tasks, running, frees, readers, active>>

BookSpecific ==
    /\ Idle
    /\ \E rooms \in RoomListInputs :
          LET out == book_specific_rooms(available_rooms, rooms)
          IN  /\ available_rooms' = out.available_rooms
              /\ last' = Call("book_specific_rooms", 0, rooms, available_rooms,
                              out.result, NoInventory)
    /\ calls' = calls + 1
    /\ UNCHANGED <<tasks, running, frees, readers, active>>

Cancel ==
    /\ Idle
    /\ \E rooms \in RoomListInputs :
          LET out == cancel_booking(available_rooms, rooms)
          IN  /\ available_rooms' = out.available_rooms
              /\ last' = Call("cancel_booking", 0, rooms, available_rooms,
                              out.result, NoInventory)
    /\ calls' = calls + 1
    /\ UNCHANGED <<tasks, running, frees, readers, active>>

\* The caller of a successful book_rooms cancels the booked_rooms it was given.
CancelBooked ==
    /\ calls < MaxCalls
    /\ last.op = "book_rooms"
    /\ last.result.error = ""
    /\ LET out == cancel_booking(available_rooms, last.result.booked_rooms)
       IN  /\ available_rooms' = out.available_rooms
           /\ last' = Call("cancel_booking", 0, last.result.booked_rooms, available_rooms,
                           out.result, last.before)
    /\ calls' = calls + 1
    /\ UNCHANGED <<tasks, running, frees, readers, active>>

Randomize ==
    /\ Idle
    /\ \E occupancy \in generate_random_occupancy(available_rooms) :
          /\ available_rooms' = occupancy
          /\ last' = Call("generate_random_occupancy", 0, <<>>, available_rooms,
                          SuccessResult, NoInventory)
    /\ calls' = calls + 1
    /\ UNCHANGED <<tasks, running, frees, readers, active>>

Reset ==
    /\ Idle
    /\ available_rooms' = reset.available_rooms
    /\ last' = Call("reset", 0, <<>>, available_rooms, reset.result, NoInventory)
    /\ calls' = calls + 1
    /\ UNCHANGED <<tasks, running, frees, readers, active>>

\* The caller takes the result; the hotel keeps nothing of the call.
Return ==
    /\ last # NoCall
    /\ last' = NoCall
    /\ UNCHANGED <<available_rooms, calls, tasks, running, frees, readers, active>>

Next == BookAuto \/ BookSpecific \/ Cancel \/ CancelBooked \/ Randomize \/ Reset \/ Return

Spec == Init /\ [][Next]_vars

-----------------------------------------------------------------------------
(* The same calls, one after the other, with the rooms each successful
   booking was given kept as held until a cancel_booking of them succeeds or
   the hotel is reset or randomized. *)

HeldBookAuto ==
    /\ Idle
    /\ \E num_rooms \in NumRoomsInputs :
          LET out == book_rooms(available_rooms, num_rooms)
          IN  /\ available_rooms' = out.available_rooms
              /\ last' = Call("book_rooms", num_rooms, <<>>, available_rooms,
                              out.result, NoInventory)
              /\ active' = Hold(active, out.result)
    /\ calls' = calls + 1
    /\ UNCHANGED <<tasks, running, frees, readers>>

HeldBookSpecific ==
    /\ Idle
    /\ \E rooms \in RoomListInputs :
          LET out == book_specific_rooms(available_rooms, rooms)
          IN  /\ available_rooms' = out.available_rooms
              /\ last' = Call("book_specific_rooms", 0, rooms, available_rooms,
                              out.result, NoInventory)
              /\ active' = Hold(active, out.result)
    /\ calls' = calls + 1
    /\ UNCHANGED <<tasks, running, frees, readers>>

HeldCancel ==
    /\ Idle
    /\ \E rooms \in RoomListInputs :
          LET out == cancel_booking(available_rooms, rooms)
          IN  /\ available_rooms' = out.available_rooms
              /\ last' = Call("cancel_booking", 0, rooms, available_rooms,
                              out.result, NoInventory)
              /\ active' = Release(active, rooms, out.result)
    /\ calls' = calls + 1
    /\ UNCHANGED <<tasks, running, frees, readers>>

HeldRandomize ==
    /\ Idle
    /\ \E occupancy \in generate_random_occupancy(available_rooms) :
          /\ available_rooms' = occupancy
          /\ last' = Call("generate_random_occupancy", 0, <<>>, available_rooms,
                          SuccessResult, NoInventory)
    /\ active' = NoBookings
    /\ calls' = calls + 1
    /\ UNCHANGED <<tasks, running, frees, readers>>

HeldReset ==
    /\ Idle
    /\ available_rooms' = reset.available_rooms
    /\ last' = Call("reset", 0, <<>>, available_rooms, reset.result, NoInventory)
    /\ active' = NoBookings
    /\ calls' = calls + 1
    /\ UNCHANGED <<tasks, running, frees, readers>>

NextHeld ==
    HeldBookAuto \/ HeldBookSpecific \/ HeldCancel \/ HeldRandomize \/ HeldReset \/ Return

SpecHeld == Init /\ [][NextHeld]_vars

-----------------------------------------------------------------------------
(* The travel-time metric on its own: _travel_time applied to any two rooms
   of the hotel. *)

Measure ==
    /\ last = NoCall
    /\ \E room1, room2 \in DOMAIN available_rooms :
          last' = Call("_travel_time", 0, <<room1, room2>>, available_rooms,
                       BookingResult(<<>>, _travel_time(room1, room2), ""),
                       NoInventory)
    /\ UNCHANGED <<available_rooms, calls, tasks, running, frees, readers, active>>

NextMetric == Measure \/ Return

SpecMetric == Init /\ [][NextMetric]_vars

-----------------------------------------------------------------------------
(* Requests served concurrently by the request layer (src/bookingRouter.py).
   Every endpoint is a coroutine (async def) on the one event loop uvicorn
   runs, all of them on the one module-level Hotel.  A coroutine keeps the
   loop until it awaits or returns. *)

\* The requests that arrive.  The request models admit num_rooms in 1..5 and
\* room lists of 1..5 rooms to the booking endpoints.
Request(op, num_rooms, rooms) == [op |-> op, num_rooms |-> num_rooms, rooms |-> rooms]

RequestInputs ==
    {Request("book_rooms", n, <<>>) : n \in {1, 2}}
    \cup {Request("book_specific_rooms", 0, rooms) : rooms \in {<<101>>, <<102, 205>>}}
    \cup {Request("cancel_booking", 0, <<101>>),
          Request("generate_random_occupancy", 0, <<>>),
          Request("reset", 0, <<>>)}

BookingOps == {"book_rooms", "book_specific_rooms"}

\* Variant: the booking handlers give the loop away between selecting the
\* rooms and marking them (an await there, or plain def handlers run in the
\* thread pool).
AwaitAfterSelection == {"selected"}

\* The points of a booking handler at which it gives the event loop away:
\* the handlers hold no await, so there is none.
SuspensionPoints == {}

Receive ==
    /\ \E t \in TaskIds :
          /\ tasks[t].pc = "none"
          /\ \A u \in 1..(t - 1) : tasks[u].pc # "none"
          /\ \E req \in RequestInputs :
                tasks' = [tasks EXCEPT ![t] = Task("pending", req.op, req.num_rooms, req.rooms)]
    /\ UNCHANGED <<available_rooms, last, calls, running, frees, readers, active>>

\* A booking handler starts and the hotel selects the rooms (or finds the
\* error, which ends the request).
BeginBooking ==
    /\ running = 0
    /\ \E t \in TaskIds :
          /\ tasks[t].pc = "pending"
          /\ tasks[t].op \in BookingOps
          /\ LET found == IF tasks[t].op = "book_rooms"
                          THEN book_rooms_search(available_rooms, tasks[t].num_rooms)
                          ELSE book_specific_rooms_check(available_rooms, tasks[t].rooms)
             IN  IF found.error # ""
                 THEN /\ tasks' = [tasks EXCEPT ![t].pc = "done", ![t].found = found]
                      /\ running' = 0
                 ELSE /\ tasks' = [tasks EXCEPT
                                      ![t].pc = "selected",
                                      ![t].found = found,
                                      ![t].snapshot = available_rooms,
                                      ![t].with = {u \in TaskIds \ {t} : tasks[u].pc = "pending"},
                                      ![t].at_search = frees]
                      /\ running' = IF "selected" \in SuspensionPoints THEN 0 ELSE t
    /\ UNCHANGED <<available_rooms, last, calls, frees, readers, active>>

\* The booking handler that has selected its rooms marks them and returns.
FinishBooking ==
    /\ \E t \in TaskIds :
          /\ tasks[t].pc = "selected"
          /\ running \in {0, t}
          /\ available_rooms' = commit_booking(available_rooms, tasks[t].found).available_rooms
          /\ tasks' = [tasks EXCEPT ![t].pc = "done",
                                    ![t].before_commit = available_rooms,
                                    ![t].at_commit = frees]
    /\ running' = 0
    /\ UNCHANGED <<last, calls, frees, readers, active>>

ServeCancel ==
    /\ running = 0
    /\ \E t \in TaskIds :
          /\ tasks[t].pc = "pending"
          /\ tasks[t].op = "cancel_booking"
          /\ LET out == cancel_booking(available_rooms, tasks[t].rooms)
             IN  /\ available_rooms' = out.available_rooms
                 /\ tasks' = [tasks EXCEPT ![t].pc = "done", ![t].found = out.result]
    /\ frees' = frees + 1
    /\ UNCHANGED <<last, calls, running, readers, active>>

ServeRandomize ==
    /\ running = 0
    /\ \E t \in TaskIds :
          /\ tasks[t].pc = "pending"
          /\ tasks[t].op = "generate_random_occupancy"
          /\ available_rooms' \in generate_random_occupancy(available_rooms)
          /\ tasks' = [tasks EXCEPT ![t].pc = "done"]
    /\ frees' = frees + 1
    /\ UNCHANGED <<last, calls, running, readers, active>>

ServeReset ==
    /\ running = 0
    /\ \E t \in TaskIds :
          /\ tasks[t].pc = "pending"
          /\ tasks[t].op = "reset"
          /\ available_rooms' = reset.available_rooms
          /\ tasks' = [tasks EXCEPT ![t].pc = "done"]
    /\ frees' = frees + 1
    /\ UNCHANGED <<last, calls, running, readers, active>>

NextConc ==
    Receive \/ BeginBooking \/ FinishBooking \/ ServeCancel \/ ServeRandomize \/ ServeReset

SpecConc == Init /\ [][NextConc]_vars

-----------------------------------------------------------------------------
(* GET /rooms requests next to bookings and resets, with the reset handler
   followed through _initialize_rooms one floor at a time.  The handlers are
   coroutines on the same event loop as above. *)

\* The requests that arrive next to the GET /rooms requests.
ResetRaceInputs ==
    {Request("book_rooms", 2, <<>>),
     Request("book_specific_rooms", 0, <<110, 1007>>),
     Request("reset", 0, <<>>)}

ReceiveBookingOrReset ==
    /\ \E t \in TaskIds :
          /\ tasks[t].pc = "none"
          /\ \A u \in 1..(t - 1) : tasks[u].pc # "none"
          /\ \E req \in ResetRaceInputs :
                tasks' = [tasks EXCEPT ![t] = Task("pending", req.op, req.num_rooms, req.rooms)]
    /\ UNCHANGED <<available_rooms, last, calls, running, frees, readers, active>>

\* Variant: _initialize_rooms empties and refills self.available_rooms itself
\* instead of a dict of its own.
BuildsInPlace(avail, available) == available

\* What self.available_rooms holds while _initialize_rooms fills its local
\* dict `available`: the attribute is not written before the method returns.
AttributeWhileBuilding(avail, available) == avail

\* Number of requests served so far.
Served ==
    Cardinality({t \in TaskIds : tasks[t].pc = "done"})
        + Cardinality({g \in ReaderIds : readers[g].pc = "done"})

\* The reset handler starts: _initialize_rooms begins with available = {}.
BeginReset ==
    /\ running = 0
    /\ \E t \in TaskIds :
          /\ tasks[t].pc = "pending"
          /\ tasks[t].op = "reset"
          /\ tasks' = [tasks EXCEPT ![t].pc = "building",
                                    ![t].before_commit = available_rooms,
                                    ![t].available = NoInventory,
                                    ![t].floor = 1,
                                    ![t].served_before = Served]
          /\ available_rooms' = AttributeWhileBuilding(available_rooms, NoInventory)
          /\ running' = t
    /\ UNCHANGED <<last, calls, frees, readers, active>>

\* One round of the floor loop of _initialize_rooms.
InitializeFloor ==
    /\ \E t \in TaskIds :
          /\ tasks[t].pc = "building"
          /\ running = t
          /\ tasks[t].floor <= floors
          /\ LET floor == tasks[t].floor
                 rooms_count == rooms_per_floor[floor]
                 available ==
                     [room_number \in (DOMAIN tasks[t].available)
                                          \cup {floor * 100 + room : room \in 1..rooms_count} |->
                         TRUE]
             IN  /\ tasks' = [tasks EXCEPT ![t].available = available,
                                           ![t].floor = floor + 1]
                 /\ available_rooms' = AttributeWhileBuilding(available_rooms, available)
    /\ UNCHANGED <<last, calls, running, frees, readers, active>>

\* _initialize_rooms returns, reset assigns the new dict and the handler ends.
FinishReset ==
    /\ \E t \in TaskIds :
          /\ tasks[t].pc = "building"
          /\ running = t
          /\ tasks[t].floor > floors
          /\ available_rooms' = tasks[t].available
          /\ tasks' = [tasks EXCEPT ![t].pc = "done"]
    /\ running' = 0
    /\ frees' = frees + 1
    /\ UNCHANGED <<last, calls, readers, active>>

\* A GET /rooms request arrives.
ReceiveGet ==
    /\ \E g \in ReaderIds :
          /\ readers[g].pc = "none"
          /\ \A h \in 1..(g - 1) : readers[h].pc # "none"
          /\ readers' = [readers EXCEPT ![g] = Reader("pending", NoInventory, {}, 0)]
    /\ UNCHANGED <<available_rooms, last, calls, tasks, running, frees, active>>

\* The get_rooms handler: it is handed the inventory and returns it.
ServeGet ==
    /\ running = 0
    /\ \E g \in ReaderIds :
          /\ readers[g].pc = "pending"
          /\ readers' = [readers EXCEPT ![g] =
                            Reader("done", get_available_rooms(available_rooms),
                                   {t \in TaskIds : tasks[t].pc = "pending"}, Served)]
    /\ UNCHANGED <<available_rooms, last, calls, tasks, running, frees, active>>

NextReaders ==
    \/ ReceiveBookingOrReset \/ BeginBooking \/ FinishBooking
    \/ BeginReset \/ InitializeFloor \/ FinishReset
    \/ ReceiveGet \/ ServeGet

SpecReaders == Init /\ [][NextReaders]_vars

-----------------------------------------------------------------------------
(* Vocabulary of the properties *)

\* The room ids of the topology: floor*100 + i, i in 1..10 on floors 1..9 and 1..7 on floor 10.
ValidRoomIds ==
    {floor * 100 + i : floor \in 1..9, i \in 1..10} \cup {1000 + i : i \in 1..7}

FloorOf(room) == room \div 100

FreeRooms(inventory) == {room \in DOMAIN inventory : inventory[room]}

FreeOnFloor(inventory, floor) == {room \in FreeRooms(inventory) : FloorOf(room) = floor}

\* Some floor has at least n free rooms.
SomeFloorHas(inventory, n) ==
    \E floor \in 1..10 : Cardinality(FreeOnFloor(inventory, floor)) >= n

Returned(op) == last.op = op

Succeeded == last.result.error = ""

BookedSet == Elements(last.result.booked_rooms)

\* The inventory is as it was before the call.
Untouched == available_rooms = last.before

\* Exactly the rooms of R went from free to occupied; nothing else changed.
ExactlyFlipped(R) ==
    /\ DOMAIN available_rooms = DOMAIN last.before
    /\ \A room \in R : last.before[room] /\ ~available_rooms[room]
    /\ \A room \in (DOMAIN last.before) \ R : available_rooms[room] = last.before[room]

-----------------------------------------------------------------------------
(* C1: when book_rooms(N) succeeds for N in 1..5, it returns N distinct valid
   room ids that were all free before the call, and after the call exactly
   those rooms have gone from free to occupied, every other room being as it
   was. *)
C1_BookAutoFrame ==
    (Returned("book_rooms") /\ Succeeded /\ last.num_rooms \in 1..5) =>
        /\ Len(last.result.booked_rooms) = last.num_rooms
        /\ Cardinality(BookedSet) = last.num_rooms
        /\ BookedSet \subseteq ValidRoomIds
        /\ ExactlyFlipped(BookedSet)

\* A successful booking of several rooms in a hotel that already had occupied
\* rooms and still has free ones.
C1_Witness ==
    /\ Returned("book_rooms") /\ Succeeded /\ last.num_rooms >= 2
    /\ \E room \in DOMAIN last.before : ~last.before[room]
    /\ FreeRooms(available_rooms) # {}

(* C2: for N in 1..5, if some floor has at least N free rooms then
   book_rooms(N) returns a single-floor result whose rooms are all on one
   floor; a multi-floor result is returned only when no floor has N free
   rooms, also when a window spanning floors has a lower travel time. *)
C2_TwoPhasePolicy ==
    (Returned("book_rooms") /\ last.num_rooms \in 1..5) =>
        /\ SomeFloorHas(last.before, last.num_rooms) =>
               /\ Succeeded
               /\ last.result.booking_type = SINGLE_FLOOR
               /\ Cardinality({FloorOf(room) : room \in BookedSet}) = 1
        /\ (Succeeded /\ last.result.booking_type = MULTI_FLOOR) =>
               ~SomeFloorHas(last.before, last.num_rooms)

\* A single-floor result returned although the multi-floor search, run on the
\* same inventory, finds a window of strictly lower travel time.
C2_Witness ==
    /\ Returned("book_rooms") /\ Succeeded
    /\ last.result.booking_type = SINGLE_FLOOR
    /\ LET multi == _find_best_rooms_multi_floor(last.before, last.num_rooms)
       IN  multi.rooms # <<>> /\ multi.time < last.result.travel_time

(* C3: cancel_booking is all-or-nothing: when an id of the batch is unknown
   the call fails with an error naming that id and the inventory is exactly as
   before the call, also for valid occupied rooms listed before the unknown
   id. *)
C3_CancelAllOrNothing ==
    (Returned("cancel_booking") /\ \E i \in DOMAIN last.rooms : last.rooms[i] \notin ValidRoomIds) =>
        /\ ~Succeeded
        /\ last.result.room \in Elements(last.rooms) \ ValidRoomIds
        /\ Untouched

\* Request t was a booking and has succeeded.
BookedBy(t) ==
    /\ tasks[t].pc = "done"
    /\ tasks[t].op \in BookingOps
    /\ tasks[t].found.error = ""

(* C4: bookings served concurrently never select overlapping rooms: the
   search and the commit of a booking are one atomic step.  No other request
   alters the inventory between a booking's search and its commit, and two
   successful bookings with no freeing call (cancel, randomize, reset) served
   between them hold disjoint rooms. *)
C4_BookingsAtomic ==
    /\ \A t \in TaskIds :
          tasks[t].pc = "selected" =>
              /\ available_rooms = tasks[t].snapshot
              /\ frees = tasks[t].at_search
    /\ \A t \in TaskIds :
          BookedBy(t) =>
              /\ tasks[t].before_commit = tasks[t].snapshot
              /\ tasks[t].at_commit = tasks[t].at_search
    /\ \A t, u \in TaskIds :
          (t # u /\ BookedBy(t) /\ BookedBy(u) /\ tasks[t].at_search = tasks[u].at_search) =>
              Elements(tasks[t].found.booked_rooms) \cap Elements(tasks[u].found.booked_rooms) = {}

\* Two bookings have both succeeded, the second in flight while the first
\* searched, both asking for rooms the other could have taken.
C4_Witness ==
    \E t, u \in TaskIds :
        /\ t # u /\ BookedBy(t) /\ BookedBy(u)
        /\ u \in tasks[t].with
        /\ tasks[t].at_search = tasks[u].at_search
        /\ tasks[t].op = "book_rooms" /\ tasks[u].op = "book_rooms"

(* C5: after a successful book_rooms(N), cancel_booking of the rooms it
   returned succeeds and leaves the inventory exactly as it was before the
   booking. *)
C5_BookCancelRoundTrip ==
    (Returned("cancel_booking") /\ last.base # NoInventory) =>
        /\ Succeeded
        /\ last.result.success
        /\ available_rooms = last.base

\* The cancellation of a multi-floor booking that has just been made.
C5_Witness ==
    /\ Returned("cancel_booking") /\ last.base # NoInventory
    /\ Cardinality({FloorOf(room) : room \in Elements(last.rooms)}) >= 2
    /\ available_rooms # last.before

(* C6: book_rooms(N) with N < 1 or N > 5 returns an error in every inventory,
   however many rooms are free, and leaves the inventory unchanged. *)
C6_OutOfRangeRejected ==
    (Returned("book_rooms") /\ (last.num_rooms < 1 \/ last.num_rooms > 5)) =>
        /\ last.result.error \in {"Maximum 5 rooms per booking allowed.",
                                   "Invalid number of rooms requested."}
        /\ last.result.booked_rooms = <<>>
        /\ Untouched

\* Six rooms asked for and refused in a hotel with more than six free rooms.
C6_Witness ==
    /\ Returned("book_rooms") /\ last.num_rooms = 6 /\ ~Succeeded
    /\ Cardinality(FreeRooms(last.before)) > 6

(* C7: for N in 1..5, book_rooms(N) fails, with the insufficient-availability
   error, exactly when fewer than N rooms are free in the whole hotel; on that
   failure the inventory is unchanged. *)
C7_FailsIffTooFewFree ==
    (Returned("book_rooms") /\ last.num_rooms \in 1..5) =>
        /\ ~Succeeded <=> Cardinality(FreeRooms(last.before)) < last.num_rooms
        /\ ~Succeeded =>
               /\ last.result.error = "Not enough rooms available for booking."
               /\ Untouched

\* A failure with some rooms free, but fewer than asked for.
C7_Witness ==
    /\ Returned("book_rooms") /\ last.num_rooms \in 1..5 /\ ~Succeeded
    /\ FreeRooms(last.before) # {}

(* C8: book_specific_rooms fails with no mutation whenever a requested room
   is unknown or occupied: the inventory after the call equals the inventory
   before it, and the error names a requested room that is unknown or
   occupied. *)
C8_BookSpecificRejects ==
    (/\ Returned("book_specific_rooms")
     /\ \E i \in DOMAIN last.rooms :
           last.rooms[i] \notin ValidRoomIds \/ ~last.before[last.rooms[i]]) =>
        /\ ~Succeeded
        /\ Untouched
        /\ last.result.room \in Elements(last.rooms)
        /\ last.result.room \notin ValidRoomIds \/ ~last.before[last.result.room]

\* A refused request whose first room was free and whose second was not bookable.
C8_Witness ==
    /\ Returned("book_specific_rooms") /\ ~Succeeded
    /\ Len(last.rooms) >= 2
    /\ last.rooms[1] \in ValidRoomIds /\ last.before[last.rooms[1]]
    /\ last.result.room = last.rooms[2]

SetMin(S) == CHOOSE x \in S : \A y \in S : x <= y

SetMax(S) == CHOOSE x \in S : \A y \in S : x >= y

(* C9: when book_specific_rooms succeeds on a list of distinct, free, valid
   rooms (of the 1..5 rooms a request holds): the travel time is
   travel-time(min id, max id) of the request (0 for one room), the type is
   single-floor if and only if all requested rooms share one floor, every
   requested room goes to occupied and no other room changes, and the returned
   list is the caller's list in the caller's order.  book_specific_rooms of
   [101, 205] gives travel time 6 and multi-floor. *)
C9_BookSpecificResult ==
    (/\ Returned("book_specific_rooms")
     /\ Len(last.rooms) \in 1..5
     /\ Cardinality(Elements(last.rooms)) = Len(last.rooms)
     /\ Elements(last.rooms) \subseteq FreeRooms(last.before) \cap ValidRoomIds) =>
        /\ Succeeded
        /\ last.result.travel_time =
               _travel_time(SetMin(Elements(last.rooms)), SetMax(Elements(last.rooms)))
        /\ Len(last.rooms) = 1 => last.result.travel_time = 0
        /\ last.result.booking_type = SINGLE_FLOOR <=>
               \A a, b \in Elements(last.rooms) : FloorOf(a) = FloorOf(b)
        /\ last.result.booking_type \in {SINGLE_FLOOR, MULTI_FLOOR}
        /\ ExactlyFlipped(Elements(last.rooms))
        /\ last.result.booked_rooms = last.rooms
        /\ last.rooms = <<101, 205>> =>
               last.result.travel_time = 6 /\ last.result.booking_type = MULTI_FLOOR

\* Rooms 205 and 101 booked in that order, with other rooms occupied before.
C9_Witness ==
    /\ Returned("book_specific_rooms") /\ Succeeded
    /\ last.rooms = <<205, 101>>
    /\ last.result.booked_rooms = <<205, 101>>
    /\ \E room \in DOMAIN last.before : ~last.before[room]

\* The fresh hotel with the 10 rooms of floor 1 booked.
FloorOneBooked == [room \in ValidRoomIds |-> FloorOf(room) # 1]

(* C10 as stated: from a fresh hotel, after all 10 rooms of floor 1 have been
   booked, book_rooms(5) falls back to the multi-floor search and returns
   201..205 with type multi-floor. *)
C10_FallsBackToMultiFloor ==
    (Returned("book_rooms") /\ last.num_rooms = 5 /\ last.before = FloorOneBooked) =>
        /\ last.result.booked_rooms = <<201, 202, 203, 204, 205>>
        /\ last.result.booking_type = MULTI_FLOOR

(* C10 amended: from a fresh hotel, after all 10 rooms of floor 1 have been
   booked, book_rooms(5) finds floor 2 in the single-floor search and returns
   201..205 with travel time 4 and type single-floor; the multi-floor search
   is not used. *)
C10_SecondFloorSingleFloor ==
    (Returned("book_rooms") /\ last.num_rooms = 5 /\ last.before = FloorOneBooked) =>
        /\ last.result.booked_rooms = <<201, 202, 203, 204, 205>>
        /\ last.result.travel_time = 4
        /\ last.result.booking_type = SINGLE_FLOOR
        /\ ExactlyFlipped({201, 202, 203, 204, 205})

\* book_rooms(5) has returned in the hotel whose floor 1 was fully booked.
C10_Witness ==
    /\ Returned("book_rooms") /\ last.num_rooms = 5 /\ last.before = FloorOneBooked
    /\ FreeRooms(available_rooms) = FreeRooms(FloorOneBooked) \ {201, 202, 203, 204, 205}

-----------------------------------------------------------------------------
(* Vocabulary of the searches, stated on sets of rooms *)

AbsDiff(a, b) == IF a < b THEN b - a ELSE a - b

\* The travel-time metric: 2 x |floor difference| + |position difference|.
TravelTime(a, b) ==
    2 * AbsDiff(a \div 100, b \div 100) + AbsDiff(a % 100, b % 100)

\* The window of n entries that starts at room `start` in the ascending list
\* of the rooms of `pool`: start and the rooms of pool above it that fewer
\* than n rooms of pool, from start on, precede.
WindowAt(pool, start, n) ==
    {room \in pool : room >= start /\ Cardinality({x \in pool : start <= x /\ x < room}) < n}

\* The windows of n entries of the ascending list of pool.
Windows(pool, n) ==
    {W \in {WindowAt(pool, start, n) : start \in pool} : Cardinality(W) = n}

Cost(W) == TravelTime(SetMin(W), SetMax(W))

\* The windows of n entries of the free-room lists of the floors.
FloorWindows(inventory, n) ==
    UNION {Windows(FreeOnFloor(inventory, floor), n) : floor \in 1..10}

\* W is, among the windows of `all`, one of minimal cost and the first of
\* those: room ids ascend with (floor, position), so the first window is the
\* one of least first room.
FirstCheapest(W, all) ==
    /\ W \in all
    /\ \A V \in all : Cost(V) >= Cost(W)
    /\ \A V \in all : Cost(V) = Cost(W) => SetMin(V) >= SetMin(W)

\* The list is ascending, without repetition.
Ascending(list) == \A i, j \in DOMAIN list : i < j => list[i] < list[j]

(* C11: when some floor has at least N free rooms, book_rooms(N) returns a
   contiguous window of N entries of one floor's ascending free-room list
   whose cost travel-time(first, last) is minimal over all such windows on
   all floors, the first in (floor, window start) order among the minimal
   ones, and reports that cost as the travel time.  On a fresh hotel
   book_rooms(3) returns [101, 102, 103], travel time 2, single-floor. *)
C11_SingleFloorSelection ==
    (/\ Returned("book_rooms") /\ last.num_rooms \in 1..5
     /\ SomeFloorHas(last.before, last.num_rooms)) =>
        /\ Succeeded
        /\ Ascending(last.result.booked_rooms)
        /\ FirstCheapest(BookedSet, FloorWindows(last.before, last.num_rooms))
        /\ last.result.travel_time = Cost(BookedSet)
        /\ (last.before = [room \in ValidRoomIds |-> TRUE] /\ last.num_rooms = 3) =>
               /\ last.result.booked_rooms = <<101, 102, 103>>
               /\ last.result.travel_time = 2
               /\ last.result.booking_type = SINGLE_FLOOR

\* A booking made on a floor above another floor that also had enough free
\* rooms, but only at a higher cost.
C11_Witness ==
    /\ Returned("book_rooms") /\ Succeeded
    /\ last.result.booking_type = SINGLE_FLOOR
    /\ \E floor \in 1..10 :
          /\ \A room \in BookedSet : floor < FloorOf(room)
          /\ Cardinality(FreeOnFloor(last.before, floor)) >= last.num_rooms

(* C12: the travel time of two rooms is 2 x |floor(a) - floor(b)| +
   |position(a) - position(b)|, floor = id div 100 and position = id mod 100;
   for all valid room ids a, b it is symmetric, non-negative, and zero when
   a = b. *)
C12_TravelTimeMetric ==
    Returned("_travel_time") =>
        LET a == last.rooms[1]
            b == last.rooms[2]
            time == last.result.travel_time
        IN  /\ time = 2 * AbsDiff(a \div 100, b \div 100) + AbsDiff(a % 100, b % 100)
            /\ time = _travel_time(b, a)
            /\ time >= 0
            /\ a = b => time = 0

\* The time from a room to a room on a lower floor and at a lower position.
C12_Witness ==
    /\ Returned("_travel_time")
    /\ last.rooms = <<1007, 101>>
    /\ last.result.travel_time = 24

(* C13: from any reachable inventory, reset leaves every known room id free:
   get_available_rooms then reports all 97 rooms free, and the inventory
   equals the one created at initialization. *)
C13_ResetRestoresAll ==
    Returned("reset") =>
        /\ Succeeded
        /\ DOMAIN get_available_rooms(available_rooms) = ValidRoomIds
        /\ \A room \in ValidRoomIds : get_available_rooms(available_rooms)[room] = TRUE
        /\ Cardinality(FreeRooms(get_available_rooms(available_rooms))) = 97
        /\ available_rooms = _initialize_rooms

\* A reset of a hotel in which most rooms were occupied, on every floor.
C13_Witness ==
    /\ Returned("reset")
    /\ \A floor \in 1..10 : Cardinality(FreeOnFloor(last.before, floor)) <= 2
    /\ Cardinality(FreeRooms(available_rooms)) = 97

(* C14: a cancel_booking whose rooms are all known succeeds and leaves every
   room of the batch free and every other room unchanged; it is idempotent:
   cancelling rooms that are already free is no error and changes nothing,
   and the same cancel applied a second time yields the same inventory. *)
C14_CancelKnownIdempotent ==
    (Returned("cancel_booking") /\ Elements(last.rooms) \subseteq ValidRoomIds) =>
        /\ Succeeded
        /\ DOMAIN available_rooms = DOMAIN last.before
        /\ \A room \in Elements(last.rooms) : available_rooms[room]
        /\ \A room \in (DOMAIN last.before) \ Elements(last.rooms) :
               available_rooms[room] = last.before[room]
        /\ Elements(last.rooms) \subseteq FreeRooms(last.before) => Untouched
        /\ cancel_booking(available_rooms, last.rooms) =
               Outcome(SuccessResult, available_rooms)

\* A batch of two known rooms, one occupied and one already free before.
C14_Witness ==
    /\ Returned("cancel_booking") /\ Succeeded
    /\ Len(last.rooms) = 2
    /\ ~last.before[last.rooms[1]] /\ last.before[last.rooms[2]]
    /\ available_rooms[last.rooms[1]] /\ available_rooms[last.rooms[2]]

(* C15: when no floor has N free rooms but at least N rooms are free in all,
   book_rooms(N) returns N consecutive entries of the list of all free rooms
   in floor-then-position order whose travel time from first to last is
   minimal over all such windows, the first such window on ties, with that
   time as travel_time and booking_type multi-floor. *)
C15_MultiFloorSelection ==
    (/\ Returned("book_rooms") /\ last.num_rooms \in 1..5
     /\ ~SomeFloorHas(last.before, last.num_rooms)
     /\ Cardinality(FreeRooms(last.before)) >= last.num_rooms) =>
        /\ Succeeded
        /\ Ascending(last.result.booked_rooms)
        /\ FirstCheapest(BookedSet, Windows(FreeRooms(last.before), last.num_rooms))
        /\ last.result.travel_time = Cost(BookedSet)
        /\ last.result.booking_type = MULTI_FLOOR

\* A multi-floor booking whose window is not the first of the list: an
\* earlier window costs more.
C15_Witness ==
    /\ Returned("book_rooms") /\ Succeeded
    /\ last.result.booking_type = MULTI_FLOOR
    /\ ~SomeFloorHas(last.before, last.num_rooms)
    /\ SetMin(FreeRooms(last.before)) < SetMin(BookedSet)

(* C16: in every state reached by any sequence of book_rooms,
   book_specific_rooms, cancel_booking, generate_random_occupancy and reset
   calls with arbitrary arguments (room ids that are no rooms and num_rooms
   out of range included), the keys of the inventory are exactly the 97 ids
   floor*100 + i (floors 1..9 with i in 1..10, floor 10 with i in 1..7) and
   every key maps to a boolean. *)
C16_KeySetFixed ==
    /\ DOMAIN available_rooms = ValidRoomIds
    /\ Cardinality(DOMAIN available_rooms) = 97
    /\ \A room \in DOMAIN available_rooms : available_rooms[room] \in BOOLEAN

\* A call that was given an id that is no room next to rooms of the hotel,
\* after a call that changed the inventory.
C16_Witness ==
    /\ last.op \in {"book_specific_rooms", "cancel_booking"}
    /\ 999 \in Elements(last.rooms) /\ Len(last.rooms) = 2
    /\ last.before # _initialize_rooms
    /\ DOMAIN available_rooms = ValidRoomIds

AllFree == [room \in ValidRoomIds |-> TRUE]

Complete(inventory) ==
    /\ DOMAIN inventory = ValidRoomIds
    /\ \A room \in ValidRoomIds : inventory[room] \in BOOLEAN

ResetTasks == {t \in TaskIds : tasks[t].op = "reset"}

(* C17: reset is atomic for concurrent readers: a get_available_rooms next to
   a reset is handed the complete inventory of before the reset or the
   complete all-free inventory, never a map in which only some rooms have
   been reset or some keys are missing.  At every point of a reset the map
   a reader would be handed is the complete inventory of before the reset;
   a reader served right before a reset was handed that inventory, and one
   served right after it the all-free inventory. *)
C17_ResetAtomicForReaders ==
    /\ \A r \in ResetTasks :
          tasks[r].pc = "building" =>
              /\ Complete(get_available_rooms(available_rooms))
              /\ get_available_rooms(available_rooms) = tasks[r].before_commit
    /\ \A g \in ReaderIds :
          readers[g].pc = "done" =>
              /\ Complete(readers[g].response)
              /\ \A r \in ResetTasks :
                    tasks[r].pc = "done" =>
                        /\ tasks[r].served_before = readers[g].served_before + 1 =>
                               readers[g].response = tasks[r].before_commit
                        /\ readers[g].served_before = tasks[r].served_before + 1 =>
                               readers[g].response = AllFree

\* A reset part-way through its floors, of an inventory with occupied rooms on
\* floors it has and has not yet rebuilt, while a GET /rooms request waits.
C17_Witness ==
    \E r \in ResetTasks, g \in ReaderIds :
        /\ tasks[r].pc = "building"
        /\ tasks[r].floor \in 2..floors
        /\ readers[g].pc = "pending"
        /\ ~tasks[r].before_commit[110]
        /\ ~tasks[r].before_commit[1007]

FloorsOf(rooms) == {FloorOf(room) : room \in rooms}

(* C18: the booking_type of every successful book_rooms result agrees with
   the rooms it returns: it is single-floor if and only if all returned rooms
   are on one floor; every result of the multi-floor fallback holds rooms of
   at least two floors. *)
C18_TypeAgreesWithRooms ==
    (Returned("book_rooms") /\ Succeeded) =>
        /\ last.result.booking_type \in {SINGLE_FLOOR, MULTI_FLOOR}
        /\ last.result.booking_type = SINGLE_FLOOR <=> Cardinality(FloorsOf(BookedSet)) = 1
        /\ last.result.booking_type = MULTI_FLOOR => Cardinality(FloorsOf(BookedSet)) >= 2

\* A result of the fallback whose rooms lie on three floors.
C18_Witness ==
    /\ Returned("book_rooms") /\ Succeeded
    /\ last.result.booking_type = MULTI_FLOOR
    /\ Cardinality(FloorsOf(BookedSet)) = 3

(* C19: no double booking over a history of calls made one after the other:
   with the rooms of every successful book_rooms / book_specific_rooms result
   held until those rooms are cancelled or the hotel is reset or randomized,
   in every reachable state the rooms held by different bookings are pairwise
   disjoint and every held room is marked occupied in the inventory. *)
C19_NoDoubleBooking ==
    \A room \in DOMAIN active :
        /\ active[room] <= 1
        /\ active[room] >= 1 => ~Get(available_rooms, room, FALSE)

\* The n-element subsets of a set of rooms.
SubsetsOfSize(rooms, n) == {S \in SUBSET rooms : Cardinality(S) = n}

\* Every set of n free rooms of one floor, consecutive in the free list or not.
FloorSubsets(inventory, n) ==
    UNION {SubsetsOfSize(FreeOnFloor(inventory, floor), n) : floor \in 1..10}

(* C20: looking only at consecutive sequences of a floor's free list loses
   nothing: whenever book_rooms(N) returns a single-floor result, its travel
   time is the minimum, over every floor and every N-element subset of that
   floor's free rooms (consecutive or not), of the travel time from the
   lowest room of the subset to its highest. *)
C20_WindowsAreOptimal ==
    (/\ Returned("book_rooms") /\ Succeeded
     /\ last.result.booking_type = SINGLE_FLOOR) =>
        LET candidates == FloorSubsets(last.before, last.num_rooms)
        IN  /\ \E S \in candidates :
                  TravelTime(SetMin(S), SetMax(S)) = last.result.travel_time
            /\ \A S \in candidates :
                  TravelTime(SetMin(S), SetMax(S)) >= last.result.travel_time

\* A single-floor result from a floor that had occupied rooms, where some
\* subset that is no consecutive sequence of the free list costs more.
C20_Witness ==
    /\ Returned("book_rooms") /\ Succeeded
    /\ last.result.booking_type = SINGLE_FLOOR
    /\ last.num_rooms >= 2
    /\ \E room \in DOMAIN last.before :
          FloorOf(room) \in FloorsOf(BookedSet) /\ ~last.before[room]
    /\ \E S \in FloorSubsets(last.before, last.num_rooms) :
          /\ S \notin FloorWindows(last.before, last.num_rooms)
          /\ TravelTime(SetMin(S), SetMax(S)) > last.result.travel_time

====
